---- MODULE Spec2Model ----
(***************************************************************************)
(* Model of src/main.py: the three-phase front end of the model language.  *)
(*   LexicalAnalyzer.tokenize   - the regular-expression scanner            *)
(*   SyntaxAnalyzer             - the recursive-descent parser              *)
(*   SemanticAnalyzer           - the two semantic passes                   *)
(*   analyze_program            - the pipeline                              *)
(*                                                                         *)
(* Python values are records [py |-> <type name>, v |-> <text>]: a str, an  *)
(* int or a float keep their Python type, so that isinstance and == are    *)
(* computed as Python computes them.  A source text is a sequence of       *)
(* one-character strings.                                                   *)
(***************************************************************************)
EXTENDS Integers, Sequences, FiniteSets, TLC

VARIABLES
    program,            \* tokenize: the source text (sequence of characters)
    tokens,             \* the token stream ((kind, value) pairs), as far as it has been read
    eof,                \* TRUE when the token stream ends at Len(tokens)
    lexical_errors,     \* the tokenizer's error list
    current_token,      \* SyntaxAnalyzer.current_token (0-based cursor)
    symbol_table,       \* SyntaxAnalyzer.symbol_table (a dict: entries in insertion order)
    stack,              \* the parser's call stack, innermost frame first
    ret,                \* the value returned by the last call that returned one
    parse_result,       \* the value returned by SyntaxAnalyzer.parse
    errors,             \* SemanticAnalyzer.errors
    sem_symbol_table,   \* SemanticAnalyzer.symbol_table
    declared_variables, \* SemanticAnalyzer.declared_variables
    undeclared_usage,   \* SemanticAnalyzer.undeclared_usage
    semantic_result,    \* the value returned by SemanticAnalyzer.analyze
    result,             \* the value returned by analyze_program, or the exception that escaped
    pc                  \* the position of the pipeline

vars == <<program, tokens, eof, lexical_errors, current_token, symbol_table, stack, ret,
          parse_result, errors, sem_symbol_table, declared_variables, undeclared_usage,
          semantic_result, result, pc>>

lexVars == <<program, tokens, lexical_errors>>
parserVars == <<current_token, symbol_table, stack, ret, parse_result>>
semVars == <<errors, sem_symbol_table, declared_variables, undeclared_usage, semantic_result>>

PyStr(s) == [py |-> "str", v |-> s]
PyInt(s) == [py |-> "int", v |-> s]
PyFloat(s) == [py |-> "float", v |-> s]
Token(k, val) == [kind |-> k, value |-> val]
PyNone == [py |-> "None"]

Min(S) == CHOOSE m \in S : \A o \in S : m <= o

-----------------------------------------------------------------------------
(* LexicalAnalyzer *)

Digits == {"0", "1", "2", "3", "4", "5", "6", "7", "8", "9"}
Lower == {"a", "b", "c", "d", "e", "f", "g", "h", "i", "j", "k", "l", "m",
          "n", "o", "p", "q", "r", "s", "t", "u", "v", "w", "x", "y", "z"}
Upper == {"A", "B", "C", "D", "E", "F", "G", "H", "I", "J", "K", "L", "M",
          "N", "O", "P", "Q", "R", "S", "T", "U", "V", "W", "X", "Y", "Z"}
\* [A-Za-z_0-9], the class \b is defined by
WordChars == Lower \cup Upper \cup Digits \cup {"_"}
HexDigits == Digits \cup {"A", "B", "C", "D", "E", "F", "a", "b", "c", "d", "e", "f"}
\* \s on the characters of a str
SpaceChars == {" ", "\t", "\n", "\r", "\f"}

Keywords == <<"let", "if", "then", "else", "for", "do", "while", "loop", "input", "output">>

\* the names of token_specification, in the order of the alternation
token_specification == <<"COMMENT", "NUMBER", "BIN_NUMBER", "OCT_NUMBER", "DEC_NUMBER",
                         "HEX_NUMBER", "KEYWORD", "IDENTIFIER", "ASSIGN", "REL_OP", "ADD_OP",
                         "MUL_OP", "UNARY_OP", "DELIMITER", "WHITESPACE", "NEWLINE">>

\* the text s[i..j] as a string
RECURSIVE Text(_, _, _)
Text(s, i, j) == IF i > j THEN "" ELSE s[i] \o Text(s, i + 1, j)

\* the last position of the longest run of characters of C that starts at i (i - 1: no run)
RECURSIVE RunEnd(_, _, _)
RunEnd(s, i, C) == IF i <= Len(s) /\ s[i] \in C THEN RunEnd(s, i + 1, C) ELSE i - 1

\* s has the literal word w at i
HasWord(s, i, w) == i + Len(w) - 1 <= Len(s) /\ Text(s, i, i + Len(w) - 1) = w

\* \b between positions i - 1 and i
WordBoundary(s, i) ==
    LET before == i > 1 /\ s[i - 1] \in WordChars
        after == i <= Len(s) /\ s[i] \in WordChars
    IN  before # after

\* [C]+[Suf]: no character of C is in Suf, so the greedy run is the only candidate
MatchSuffixed(s, i, C, Suf) ==
    LET r == RunEnd(s, i, C)
    IN  IF r >= i /\ r + 1 <= Len(s) /\ s[r + 1] \in Suf THEN r + 1 ELSE 0

\* /\*.*?\*/ : the first closing */ at or after i + 2, with no newline before it
MatchCOMMENT(s, i) ==
    IF i + 1 <= Len(s) /\ s[i] = "/" /\ s[i + 1] = "*"
    THEN LET closers == {j \in (i + 2)..(Len(s) - 1) :
                            /\ s[j] = "*" /\ s[j + 1] = "/"
                            /\ \A k \in (i + 2)..(j - 1) : s[k] # "\n"}
         IN  IF closers = {} THEN 0 ELSE Min(closers) + 1
    ELSE 0

\* \d+(?:\.\d+)?(?:[Ee][+-]?\d+)?
MatchNUMBER(s, i) ==
    LET d == RunEnd(s, i, Digits)
        f == IF d + 2 <= Len(s) /\ s[d + 1] = "." /\ s[d + 2] \in Digits
             THEN RunEnd(s, d + 2, Digits) ELSE d
        p == IF f + 2 <= Len(s) /\ s[f + 2] \in {"+", "-"} THEN f + 3 ELSE f + 2
        e == IF f + 1 <= Len(s) /\ s[f + 1] \in {"E", "e"} /\ p <= Len(s) /\ s[p] \in Digits
             THEN RunEnd(s, p, Digits) ELSE f
    IN  IF d < i THEN 0 ELSE e

\* \b(let|if|...)\b : the first keyword of the alternation that fits
MatchKEYWORD(s, i) ==
    LET hits == {k \in 1..Len(Keywords) :
                    /\ HasWord(s, i, Keywords[k])
                    /\ WordBoundary(s, i + Len(Keywords[k]))}
    IN  IF WordBoundary(s, i) /\ hits # {} THEN i + Len(Keywords[Min(hits)]) - 1 ELSE 0

\* the last position of the match of the named pattern at position i, 0 when it does not match
MatchEnd(name, s, i) ==
    IF i > Len(s) THEN 0
    ELSE CASE name = "COMMENT" -> MatchCOMMENT(s, i)
           [] name = "NUMBER" -> MatchNUMBER(s, i)
           [] name = "BIN_NUMBER" -> MatchSuffixed(s, i, {"0", "1"}, {"B", "b"})
           [] name = "OCT_NUMBER" ->
                MatchSuffixed(s, i, {"0", "1", "2", "3", "4", "5", "6", "7"}, {"O", "o"})
           [] name = "DEC_NUMBER" ->
                LET r == RunEnd(s, i, Digits)
                IN  IF r < i THEN 0
                    ELSE IF r + 1 <= Len(s) /\ s[r + 1] \in {"D", "d"} THEN r + 1 ELSE r
           [] name = "HEX_NUMBER" -> MatchSuffixed(s, i, HexDigits, {"H", "h"})
           [] name = "KEYWORD" -> MatchKEYWORD(s, i)
           [] name = "IDENTIFIER" ->
                IF s[i] \in Lower \cup Upper \cup {"_"} THEN RunEnd(s, i + 1, WordChars) ELSE 0
           [] name = "ASSIGN" -> IF s[i] = "=" THEN i ELSE 0
           [] name = "REL_OP" ->
                IF s[i] \in {"<", ">"}
                THEN (IF i + 1 <= Len(s) /\ s[i + 1] = "=" THEN i + 1 ELSE i)
                ELSE 0
           [] name = "ADD_OP" ->
                IF s[i] \in {"+", "-"} THEN i ELSE IF HasWord(s, i, "or") THEN i + 1 ELSE 0
           [] name = "MUL_OP" ->
                IF s[i] \in {"*", "/"} THEN i ELSE IF HasWord(s, i, "and") THEN i + 2 ELSE 0
           [] name = "UNARY_OP" -> IF HasWord(s, i, "not") THEN i + 2 ELSE 0
           [] name = "DELIMITER" -> IF s[i] \in {"{", "}", "(", ")", ";", ","} THEN i ELSE 0
           [] name = "WHITESPACE" -> LET r == RunEnd(s, i, {" ", "\t"}) IN IF r < i THEN 0 ELSE r
           [] name = "NEWLINE" -> IF s[i] = "\n" THEN i ELSE 0

\* the indices of the patterns of token_regex that match at position i
Alternatives(s, i) == {k \in 1..Len(token_specification) : MatchEnd(token_specification[k], s, i) > 0}

\* re.finditer(token_regex, program) from position i: the matches [kind, first, last] in order
RECURSIVE finditer(_, _)
finditer(s, i) ==
    IF i > Len(s) THEN <<>>
    ELSE IF Alternatives(s, i) = {} THEN finditer(s, i + 1)
    ELSE LET kind == token_specification[Min(Alternatives(s, i))]
             last == MatchEnd(kind, s, i)
         IN  <<[kind |-> kind, first |-> i, last |-> last]>> \o finditer(s, last + 1)

\* line 39: float(value) if '.' in value or 'E' in value or 'e' in value else int(value)
NumberValue(s, m) ==
    IF \E k \in m.first..m.last : s[k] \in {".", "E", "e"}
    THEN PyFloat(Text(s, m.first, m.last))
    ELSE PyInt(Text(s, m.first, m.last))

\* lines 33-40: the tokens of the matches
RECURSIVE MatchTokens(_, _)
MatchTokens(s, ms) ==
    IF ms = <<>> THEN <<>>
    ELSE LET m == Head(ms)
         IN  IF m.kind \in {"WHITESPACE", "NEWLINE", "COMMENT"} THEN MatchTokens(s, Tail(ms))
             ELSE IF m.kind = "NUMBER"
                  THEN <<Token(m.kind, NumberValue(s, m))>> \o MatchTokens(s, Tail(ms))
                  ELSE <<Token(m.kind, PyStr(Text(s, m.first, m.last)))>> \o MatchTokens(s, Tail(ms))

UnknownChar(c) == [msg |-> "unknown character", char |-> c]

\* lines 43-46: one error per non-space character that no pattern matches when taken alone
RECURSIVE CharErrors(_, _)
CharErrors(s, i) ==
    IF i > Len(s) THEN <<>>
    ELSE IF s[i] \notin SpaceChars
            /\ ~ \E k \in 1..Len(token_specification) : MatchEnd(token_specification[k], <<s[i]>>, 1) > 0
         THEN <<UnknownChar(s[i])>> \o CharErrors(s, i + 1)
         ELSE CharErrors(s, i + 1)

\* LexicalAnalyzer.tokenize: the whole call
tokenize ==
    /\ pc = "tokenize"
    /\ tokens' = MatchTokens(program, finditer(program, 1))
    /\ lexical_errors' = CharErrors(program, 1)
    /\ eof' = TRUE
    /\ pc' = "tokenized"
    /\ UNCHANGED <<program, parserVars, semVars, result>>

-----------------------------------------------------------------------------
(* SyntaxAnalyzer *)

\* self.tokens[i], i counted from 0 as in the source
Tok(i) == tokens[i + 1]

\* position i of the stream has been read: it holds a token or is past the end
Decided(i) == i < Len(tokens) \/ eof

Top == Head(stack)

Frame(f, l) == [fn |-> f, at |-> l]

\* the steps that read no token: calls and returns without a test of the stream
ReadsNoToken(fr) ==
    \/ fr.fn = "parse"
    \/ fr.fn = "parse_statement" /\ fr.at = 119
    \/ fr.fn = "parse_conditional" /\ fr.at = 128
    \/ fr.fn = "parse_fixed_loop" /\ fr.at \in {136, 137}
    \/ fr.fn = "parse_while_loop" /\ fr.at = 143
    \/ fr.fn = "parse_expression" /\ fr.at = 183

\* every position the next step of the parser reads has been read from the input
ParserReady ==
    \/ ReadsNoToken(Top)
    \/ /\ Decided(current_token)
       /\ (/\ Top.fn = "parse_statement" /\ Top.at = 98
           /\ current_token < Len(tokens)
           /\ Tok(current_token).kind = "IDENTIFIER") => Decided(current_token + 1)

Running(f) == pc = "parse" /\ stack # <<>> /\ Top.fn = f /\ ParserReady

\* the stack with the running frame moved to line l
Goto(l) == <<[Top EXCEPT !.at = l]>> \o Tail(stack)

\* the stack after the running frame, resuming at line l, has called fr
Call(fr, l) == <<fr>> \o Goto(l)

\* a step of the parser that raises nothing
Step(cur, table, stk, r) ==
    /\ current_token' = cur
    /\ symbol_table' = table
    /\ stack' = stk
    /\ ret' = r
    /\ UNCHANGED <<lexVars, eof, parse_result, semVars, result, pc>>

\* raise SyntaxError(msg): caught by parse, lines 64-65
RaiseSyntaxError(msg) ==
    /\ parse_result' = [success |-> FALSE, error |-> msg]
    /\ stack' = <<>>
    /\ pc' = "analyze"
    /\ UNCHANGED <<lexVars, eof, current_token, symbol_table, ret, semVars, result>>

\* an exception no handler catches leaves parse and analyze_program
RaiseUncaught(exc) ==
    /\ result' = [exception |-> exc]
    /\ stack' = <<>>
    /\ pc' = "crashed"
    /\ UNCHANGED <<lexVars, eof, current_token, symbol_table, ret, parse_result, semVars>>

\* match with its bound test off by one: the last token is never matched
CanMatch_off_by_one(expected_type) ==
    current_token + 1 < Len(tokens) /\ Tok(current_token).kind = expected_type

\* line 68: the condition of match
CanMatch(expected_type) ==
    current_token < Len(tokens) /\ Tok(current_token).kind = expected_type

\* lines 72-73: the message of match's SyntaxError
MatchError(expected_type) ==
    [msg |-> "expected", expected |-> expected_type,
     found |-> IF current_token < Len(tokens) THEN Tok(current_token) ELSE PyStr("end of file")]

\* SyntaxAnalyzer.match, followed by the rest of the caller's step
match(expected_type, stk) ==
    IF CanMatch(expected_type)
    THEN Step(current_token + 1, symbol_table, stk, ret)
    ELSE RaiseSyntaxError(MatchError(expected_type))

\* the loop condition of lines 77 and 156
InLoop == current_token < Len(tokens) /\ Tok(current_token).value # PyStr("}")

\* the dict self.symbol_table: a sequence of [key, info] in insertion order
Keys(table) == {table[i].key : i \in 1..Len(table)}
Lookup(table, k) == table[CHOOSE i \in 1..Len(table) : table[i].key = k].info
SetItem(table, k, info) ==
    IF k \in Keys(table)
    THEN [i \in 1..Len(table) |-> IF table[i].key = k THEN [key |-> k, info |-> info] ELSE table[i]]
    ELSE Append(table, [key |-> k, info |-> info])

\* SyntaxAnalyzer.parse
parse ==
    /\ Running("parse")
    /\ IF Top.at = 62
       THEN Step(current_token, symbol_table, Call(Frame("parse_program", 76), 63), ret)
       ELSE /\ parse_result' = [success |-> TRUE, symbol_table |-> symbol_table]
            /\ stack' = <<>>
            /\ pc' = "analyze"
            /\ UNCHANGED <<lexVars, eof, current_token, symbol_table, ret, semVars, result>>

\* SyntaxAnalyzer.parse_program
parse_program ==
    /\ Running("parse_program")
    /\ IF Top.at = 76 THEN match("DELIMITER", Goto(77))
       ELSE IF InLoop
            THEN IF Tok(current_token).kind = "KEYWORD" /\ Tok(current_token).value = PyStr("let")
                 THEN Step(current_token, symbol_table, Call(Frame("parse_declaration", 88), 77), ret)
                 ELSE Step(current_token, symbol_table,
                           Call([fn |-> "parse_statement", at |-> 98, entry |-> current_token], 77), ret)
            ELSE match("DELIMITER", Tail(stack))

\* a declaration that stores the entry without its flag
DeclaredEntry_unflagged(value) == [type |-> "variable", value |-> value]

\* lines 93-95
DeclaredEntry(value) == [type |-> "variable", value |-> value, declared |-> TRUE]

\* SyntaxAnalyzer.parse_declaration
parse_declaration ==
    /\ Running("parse_declaration")
    /\ CASE Top.at = 88 -> match("KEYWORD", Goto(89))
         [] Top.at = 89 ->
              match("IDENTIFIER",
                    <<[fn |-> Top.fn, at |-> 90, identifier |-> Tok(current_token)]>> \o Tail(stack))
         [] Top.at = 90 -> match("ASSIGN", Call(Frame("parse_expression", 174), 92))
         [] Top.at = 92 ->
              IF CanMatch("DELIMITER")
              THEN Step(current_token + 1,
                        SetItem(symbol_table, Top.identifier.value, DeclaredEntry(ret)),
                        Tail(stack), ret)
              ELSE RaiseSyntaxError(MatchError("DELIMITER"))

\* SyntaxAnalyzer.parse_statement
parse_statement ==
    /\ Running("parse_statement")
    /\ IF Top.at = 119 THEN Step(current_token, symbol_table, Tail(stack), ret)
       ELSE IF current_token >= Len(tokens)
       THEN RaiseSyntaxError([msg |-> "unexpected end of file"])
       ELSE LET current == Tok(current_token)
                unknown == RaiseSyntaxError([msg |-> "unknown statement", found |-> current])
                call(f, l) == Step(current_token, symbol_table, Call(Frame(f, l), 119), ret)
            IN  IF current.kind = "IDENTIFIER"
                THEN IF current_token + 1 >= Len(tokens) THEN RaiseUncaught("IndexError")
                     ELSE IF Tok(current_token + 1).kind = "ASSIGN"
                          THEN call("parse_assignment", 161)
                          ELSE unknown
                ELSE IF current.kind = "KEYWORD"
                THEN CASE current.value = PyStr("if") -> call("parse_conditional", 121)
                       [] current.value = PyStr("for") -> call("parse_fixed_loop", 130)
                       [] current.value = PyStr("do") -> call("parse_while_loop", 139)
                       [] current.value = PyStr("input") -> call("parse_input", 145)
                       [] current.value = PyStr("output") -> call("parse_output", 150)
                       [] OTHER -> Step(current_token, symbol_table, Goto(119), ret)
                ELSE IF current.kind = "DELIMITER" /\ current.value = PyStr("{")
                THEN call("parse_compound_statement", 155)
                ELSE unknown

\* SyntaxAnalyzer.parse_conditional
parse_conditional ==
    /\ Running("parse_conditional")
    /\ CASE Top.at = 121 -> match("KEYWORD", Call(Frame("parse_expression", 174), 123))
         [] Top.at = 123 -> match("KEYWORD", Call(Frame("parse_compound_statement", 155), 125))
         [] Top.at = 125 ->
              IF current_token < Len(tokens) /\ Tok(current_token).value = PyStr("else")
              THEN match("KEYWORD", Call(Frame("parse_compound_statement", 155), 128))
              ELSE Step(current_token, symbol_table, Tail(stack), ret)
         [] Top.at = 128 -> Step(current_token, symbol_table, Tail(stack), ret)

\* SyntaxAnalyzer.parse_fixed_loop
parse_fixed_loop ==
    /\ Running("parse_fixed_loop")
    /\ CASE Top.at = 130 -> match("KEYWORD", Goto(131))
         [] Top.at = 131 -> match("IDENTIFIER", Goto(132))
         [] Top.at = 132 -> match("ASSIGN", Call(Frame("parse_expression", 174), 134))
         [] Top.at = 134 -> match("KEYWORD", Call(Frame("parse_expression", 174), 136))
         [] Top.at = 136 ->
              Step(current_token, symbol_table, Call(Frame("parse_compound_statement", 155), 137), ret)
         [] Top.at = 137 -> Step(current_token, symbol_table, Tail(stack), ret)

\* SyntaxAnalyzer.parse_while_loop
parse_while_loop ==
    /\ Running("parse_while_loop")
    /\ CASE Top.at = 139 -> match("KEYWORD", Call(Frame("parse_compound_statement", 155), 141))
         [] Top.at = 141 -> match("KEYWORD", Call(Frame("parse_expression", 174), 143))
         [] Top.at = 143 -> Step(current_token, symbol_table, Tail(stack), ret)

\* SyntaxAnalyzer.parse_input
parse_input ==
    /\ Running("parse_input")
    /\ CASE Top.at = 145 -> match("KEYWORD", Goto(146))
         [] Top.at = 146 -> match("IDENTIFIER", Goto(147))
         [] Top.at = 147 -> match("DELIMITER", Tail(stack))

\* SyntaxAnalyzer.parse_output
parse_output ==
    /\ Running("parse_output")
    /\ CASE Top.at = 150 -> match("KEYWORD", Call(Frame("parse_expression", 174), 152))
         [] Top.at = 152 -> match("DELIMITER", Tail(stack))

\* SyntaxAnalyzer.parse_compound_statement
parse_compound_statement ==
    /\ Running("parse_compound_statement")
    /\ IF Top.at = 155 THEN match("DELIMITER", Goto(156))
       ELSE IF InLoop
            THEN Step(current_token, symbol_table,
                      Call([fn |-> "parse_statement", at |-> 98, entry |-> current_token], 156), ret)
            ELSE match("DELIMITER", Tail(stack))

\* lines 165-168: the table after the assignment of value to the name
Assigned(table, name, value) ==
    IF name \in Keys(table)
    THEN SetItem(table, name, [Lookup(table, name) EXCEPT !.value = value])
    ELSE SetItem(table, name, [type |-> "variable", value |-> value])

\* SyntaxAnalyzer.parse_assignment
parse_assignment ==
    /\ Running("parse_assignment")
    /\ CASE Top.at = 161 ->
              match("IDENTIFIER",
                    <<[fn |-> Top.fn, at |-> 162, identifier |-> Tok(current_token)]>> \o Tail(stack))
         [] Top.at = 162 -> match("ASSIGN", Call(Frame("parse_expression", 174), 164))
         [] Top.at = 164 ->
              IF CanMatch("DELIMITER")
              THEN Step(current_token + 1, Assigned(symbol_table, Top.identifier.value, ret),
                        Tail(stack), ret)
              ELSE RaiseSyntaxError(MatchError("DELIMITER"))

\* SyntaxAnalyzer.parse_expression
parse_expression ==
    /\ Running("parse_expression")
    /\ CASE Top.at = 174 ->
              IF current_token >= Len(tokens) THEN RaiseUncaught("IndexError")
              ELSE IF Tok(current_token).kind \in {"IDENTIFIER", "NUMBER"}
                   THEN match(Tok(current_token).kind,
                              <<[fn |-> Top.fn, at |-> 180, left |-> Tok(current_token)]>> \o Tail(stack))
                   ELSE RaiseSyntaxError([msg |-> "expected IDENTIFIER or NUMBER",
                                          found |-> Tok(current_token)])
         [] Top.at = 180 ->
              IF current_token < Len(tokens) /\ Tok(current_token).kind = "REL_OP"
              THEN match("REL_OP",
                         <<Frame("parse_expression", 174),
                           [fn |-> Top.fn, at |-> 183, left |-> Top.left,
                            operator |-> Tok(current_token)]>> \o Tail(stack))
              ELSE Step(current_token, symbol_table, Tail(stack), Top.left.value)
         [] Top.at = 183 ->
              Step(current_token, symbol_table, Tail(stack),
                   [py |-> "dict", left |-> Top.left.value, operator |-> Top.operator.value,
                    right |-> ret])

-----------------------------------------------------------------------------
(* SemanticAnalyzer *)

\* lines 200-201
LexicalPrefixed(errs) == [i \in 1..Len(errs) |-> [prefix |-> "lexical error", error |-> errs[i]]]

\* error lists of the tokenizer
LexErrInputs == {<<>>, <<UnknownChar("$"), UnknownChar("#")>>}

\* analyze_program, lines 277-282, once analyze has returned r
\* (tokens: the stream, as far as it was read)
Returned(errs, r) ==
    [tokens |-> tokens, lexical_errors |-> errs,
     parse_result |-> parse_result, semantic_result |-> r]

\* analyze returning the parser's table after a failed parse
analyze_reusing_table ==
    /\ pc = "analyze"
    /\ \E errs \in LexErrInputs : lexical_errors' = errs
    /\ IF ~ parse_result.success
       THEN /\ errors' = Append(LexicalPrefixed(lexical_errors'),
                                [prefix |-> "syntax error", error |-> parse_result.error])
            /\ semantic_result' = [success |-> FALSE, errors |-> errors',
                                   symbol_table |-> symbol_table]
            /\ result' = Returned(lexical_errors', semantic_result')
            /\ pc' = "done"
            /\ UNCHANGED sem_symbol_table
       ELSE /\ errors' = LexicalPrefixed(lexical_errors')
            /\ sem_symbol_table' = parse_result.symbol_table
            /\ pc' = "check_variables"
            /\ UNCHANGED <<semantic_result, result>>
    /\ UNCHANGED <<program, tokens, eof, parserVars, declared_variables, undeclared_usage>>

\* SemanticAnalyzer.analyze up to the call of check_variables, lines 200-208, with the
\* tokenizer's error list as its argument; when it returns at line 206, analyze_program returns
analyze ==
    /\ pc = "analyze"
    /\ \E errs \in LexErrInputs : lexical_errors' = errs
    /\ IF ~ parse_result.success
       THEN /\ errors' = Append(LexicalPrefixed(lexical_errors'),
                                [prefix |-> "syntax error", error |-> parse_result.error])
            /\ semantic_result' = [success |-> FALSE, errors |-> errors',
                                   symbol_table |-> sem_symbol_table]
            /\ result' = Returned(lexical_errors', semantic_result')
            /\ pc' = "done"
            /\ UNCHANGED sem_symbol_table
       ELSE /\ errors' = LexicalPrefixed(lexical_errors')
            /\ sem_symbol_table' = parse_result.symbol_table
            /\ pc' = "check_variables"
            /\ UNCHANGED <<semantic_result, result>>
    /\ UNCHANGED <<program, tokens, eof, parserVars, declared_variables, undeclared_usage>>

\* the scan for 'let' stopping one token early
DeclaredIn_short(toks) ==
    {toks[i + 1].value : i \in {j \in 1..(Len(toks) - 2) :
        /\ toks[j].kind = "KEYWORD" /\ toks[j].value = PyStr("let")
        /\ toks[j + 1].kind = "IDENTIFIER"}}

\* lines 227-232: the identifiers that follow a 'let'
DeclaredIn(toks) ==
    {toks[i + 1].value : i \in {j \in 1..(Len(toks) - 1) :
        /\ toks[j].kind = "KEYWORD" /\ toks[j].value = PyStr("let")
        /\ toks[j + 1].kind = "IDENTIFIER"}}

\* lines 235-241: the identifiers of the stream that are not in declared
UndeclaredIn(toks, declared) ==
    {toks[i].value : i \in {j \in 1..Len(toks) :
        toks[j].kind = "IDENTIFIER" /\ toks[j].value \notin declared}}

\* the orders in which a for loop may run through a set
Orders(S) == {o \in [1..Cardinality(S) -> S] : \A x \in S : \E i \in DOMAIN o : o[i] = x}

\* SemanticAnalyzer.check_variables
check_variables ==
    /\ pc = "check_variables"
    /\ eof
    /\ declared_variables' = DeclaredIn(tokens)
    /\ undeclared_usage' = UndeclaredIn(tokens, declared_variables')
    /\ \E o \in Orders(undeclared_usage') :
          errors' = errors \o [i \in DOMAIN o |-> [msg |-> "used before declaration", name |-> o[i]]]
    /\ pc' = "check_types"
    /\ UNCHANGED <<lexVars, eof, parserVars, sem_symbol_table, semantic_result, result>>

\* the classification without its floating-point branch
expected_type_int_only(info) ==
    IF info.type = "variable" /\ info.value # PyNone
    THEN IF info.value.py = "int" THEN "int"
         ELSE "unknown"
    ELSE "none"

\* lines 252-258: the type check_types finds for an entry, "none" when the entry is skipped
expected_type(info) ==
    IF info.type = "variable" /\ info.value # PyNone
    THEN IF info.value.py = "int" THEN "int"
         ELSE IF info.value.py = "float" THEN "float"
         ELSE "unknown"
    ELSE "none"

\* lines 251-261: the errors of the entries, in the order of the dict
RECURSIVE TypeErrors(_)
TypeErrors(table) ==
    IF table = <<>> THEN <<>>
    ELSE (IF expected_type(Head(table).info) = "unknown"
          THEN <<[msg |-> "unknown type", name |-> Head(table).key]>>
          ELSE <<>>) \o TypeErrors(Tail(table))

\* check_types putting its errors in front of the list
check_types_in_front ==
    /\ pc = "check_types"
    /\ errors' = TypeErrors(sem_symbol_table) \o errors
    /\ semantic_result' = [success |-> Len(errors') = 0, errors |-> errors',
                           symbol_table |-> sem_symbol_table]
    /\ result' = Returned(lexical_errors, semantic_result')
    /\ pc' = "done"
    /\ UNCHANGED <<lexVars, eof, parserVars, sem_symbol_table, declared_variables,
                   undeclared_usage>>

\* SemanticAnalyzer.check_types and the return of analyze, lines 216-220, upon which
\* analyze_program returns
check_types ==
    /\ pc = "check_types"
    /\ errors' = errors \o TypeErrors(sem_symbol_table)
    /\ semantic_result' = [success |-> Len(errors') = 0, errors |-> errors',
                           symbol_table |-> sem_symbol_table]
    /\ result' = Returned(lexical_errors, semantic_result')
    /\ pc' = "done"
    /\ UNCHANGED <<lexVars, eof, parserVars, sem_symbol_table, declared_variables,
                   undeclared_usage>>

-----------------------------------------------------------------------------
(* The inputs *)

\* the longest token stream the parser is given
MaxTokens == 6
\* the longest stream of DeclTokens the parser is given
MaxDeclTokens == 10
\* the longest stream of BranchTokens the parser is given
MaxBranchTokens == 10
\* the most tokens that follow the last token the parser read
MaxTail == 2
\* the longest source text the tokenizer is given
MaxSrcLen == 5

Kw(w) == Token("KEYWORD", PyStr(w))
Delim(c) == Token("DELIMITER", PyStr(c))
Ident(n) == Token("IDENTIFIER", PyStr(n))

\* tokens the tokenizer produces, of the kinds and values the parser tells apart
InputTokens ==
    {Delim("{"), Delim("}"), Delim(";")}
    \cup {Kw(Keywords[k]) : k \in 1..Len(Keywords)}
    \cup {Ident("x"), Ident("y"), Token("ASSIGN", PyStr("=")), Token("REL_OP", PyStr("<")),
          Token("NUMBER", NumberValue(<<"1", "0">>, [first |-> 1, last |-> 2])),
          Token("NUMBER", NumberValue(<<"1", "E", "3">>, [first |-> 1, last |-> 3])),
          Token("ADD_OP", PyStr("+"))}

\* characters of the source texts
SrcChars == {"1", ".", "a", "$", " ", "/", "*"}

RECURSIVE Texts(_)
Texts(n) == IF n = 0 THEN {<<>>}
            ELSE Texts(n - 1) \cup {Append(t, c) : t \in Texts(n - 1), c \in SrcChars}

\* tokens of declarations, assignments and blocks
DeclTokens ==
    {Delim("{"), Delim("}"), Delim(";"), Kw("let"), Ident("x"),
     Token("ASSIGN", PyStr("=")), Token("REL_OP", PyStr("<")), Token("NUMBER", PyInt("10"))}

\* tokens of conditionals and counted loops
BranchTokens ==
    {Delim("{"), Delim("}"), Kw("if"), Kw("then"), Kw("else"), Kw("for"), Ident("x"),
     Token("ASSIGN", PyStr("=")), Token("NUMBER", PyInt("10"))}

\* tokens that follow the last token the parser read
TailTokens == {Kw("let"), Ident("x")}

Among(s, T) == \A i \in 1..Len(s) : s[i] \in T

\* the token streams given to the parser: short ones of any tokens, longer ones of
\* DeclTokens or of BranchTokens
InputStream(s) ==
    \/ Len(s) <= MaxTokens
    \/ Len(s) <= MaxDeclTokens /\ Among(s, DeclTokens)
    \/ Len(s) <= MaxBranchTokens /\ Among(s, BranchTokens)

\* the stream is read on demand: a position is drawn when the next step reads it
ReadToken ==
    /\ ~ eof
    /\ \/ /\ pc = "parse" /\ stack # <<>> /\ ~ ParserReady
          /\ \E t \in InputTokens : InputStream(Append(tokens, t)) /\ tokens' = Append(tokens, t)
          /\ UNCHANGED eof
       \/ /\ pc = "check_variables"
          /\ Len(tokens) < current_token + MaxTail
          /\ \E t \in TailTokens : tokens' = Append(tokens, t)
          /\ UNCHANGED eof
       \/ /\ \/ pc = "parse" /\ stack # <<>> /\ ~ ParserReady
             \/ pc = "check_variables"
          /\ eof' = TRUE
          /\ UNCHANGED tokens
    /\ UNCHANGED <<program, lexical_errors, parserVars, semVars, result, pc>>

Init ==
    /\ program = <<>>
    /\ tokens = <<>>
    /\ eof = FALSE
    /\ lexical_errors = <<>>
    /\ current_token = 0
    /\ symbol_table = <<>>
    /\ stack = <<Frame("parse", 62)>>
    /\ ret = PyNone
    /\ parse_result = PyNone
    /\ errors = <<>>
    /\ sem_symbol_table = <<>>
    /\ declared_variables = {}
    /\ undeclared_usage = {}
    /\ semantic_result = PyNone
    /\ result = PyNone
    /\ pc = "parse"

Next ==
    \/ ReadToken
    \/ parse
    \/ parse_program
    \/ parse_declaration
    \/ parse_statement
    \/ parse_conditional
    \/ parse_fixed_loop
    \/ parse_while_loop
    \/ parse_input
    \/ parse_output
    \/ parse_compound_statement
    \/ parse_assignment
    \/ parse_expression
    \/ analyze
    \/ check_variables
    \/ check_types

Spec == Init /\ [][Next]_vars

LexInit ==
    /\ program \in Texts(MaxSrcLen)
    /\ tokens = <<>>
    /\ eof = TRUE
    /\ lexical_errors = <<>>
    /\ current_token = 0
    /\ symbol_table = <<>>
    /\ stack = <<>>
    /\ ret = PyNone
    /\ parse_result = PyNone
    /\ errors = <<>>
    /\ sem_symbol_table = <<>>
    /\ declared_variables = {}
    /\ undeclared_usage = {}
    /\ semantic_result = PyNone
    /\ result = PyNone
    /\ pc = "tokenize"

LexNext == tokenize

LexSpec == LexInit /\ [][LexNext]_vars

-----------------------------------------------------------------------------
(* The grammar of the language, and what it derives *)

Grammar ==
    [Program |-> {<<"'{'", "Items", "'}'">>},
     Items |-> {<<>>, <<"Declaration", "Items">>, <<"Statement", "Items">>},
     Declaration |-> {<<"'let'", "IDENT", "'='", "Expr", "';'">>},
     Statement |-> {<<"Assignment">>, <<"Conditional">>, <<"FixedLoop">>, <<"WhileLoop">>,
                    <<"Input">>, <<"Output">>, <<"CompoundStatement">>},
     Assignment |-> {<<"IDENT", "'='", "Expr", "';'">>},
     Conditional |-> {<<"'if'", "Expr", "'then'", "CompoundStatement", "ElsePart">>},
     ElsePart |-> {<<>>, <<"'else'", "CompoundStatement">>},
     FixedLoop |-> {<<"'for'", "IDENT", "'='", "Expr", "KEYWORD", "Expr", "CompoundStatement">>},
     WhileLoop |-> {<<"'do'", "CompoundStatement", "'while'", "Expr">>},
     Input |-> {<<"'input'", "IDENT", "';'">>},
     Output |-> {<<"'output'", "Expr", "';'">>},
     CompoundStatement |-> {<<"'{'", "Statements", "'}'">>},
     Statements |-> {<<>>, <<"Statement", "Statements">>},
     Expr |-> {<<"Operand", "Comparison">>},
     Operand |-> {<<"IDENT">>, <<"NUMBER">>},
     Comparison |-> {<<>>, <<"RelOp", "Expr">>}]

\* the token t is the terminal symbol sym
IsTerminal(sym, t) ==
    CASE sym = "IDENT" -> t.kind = "IDENTIFIER"
      [] sym = "NUMBER" -> t.kind = "NUMBER"
      [] sym = "RelOp" -> t.kind = "REL_OP"
      [] sym = "KEYWORD" -> t.kind = "KEYWORD"
      [] sym = "'='" -> t.kind = "ASSIGN"
      [] sym = "'{'" -> t = Delim("{")
      [] sym = "'}'" -> t = Delim("}")
      [] sym = "';'" -> t = Delim(";")
      [] sym = "'let'" -> t = Kw("let")
      [] sym = "'if'" -> t = Kw("if")
      [] sym = "'then'" -> t = Kw("then")
      [] sym = "'else'" -> t = Kw("else")
      [] sym = "'for'" -> t = Kw("for")
      [] sym = "'do'" -> t = Kw("do")
      [] sym = "'while'" -> t = Kw("while")
      [] sym = "'input'" -> t = Kw("input")
      [] sym = "'output'" -> t = Kw("output")

RECURSIVE SymParse(_, _, _), SeqParse(_, _, _)
\* how s[i..] derives from the symbol sym:
\*   ends: the positions j such that s[i..j-1] derives from sym
\*   open: s[i..] is the beginning of a text that derives from sym, and not all of that text
SymParse(sym, s, i) ==
    IF sym \in DOMAIN Grammar
    THEN LET alts == {SeqParse(alt, s, i) : alt \in Grammar[sym]}
         IN  [ends |-> UNION {a.ends : a \in alts}, open |-> \E a \in alts : a.open]
    ELSE [ends |-> IF i <= Len(s) /\ IsTerminal(sym, s[i]) THEN {i + 1} ELSE {},
          open |-> i = Len(s) + 1]
\* the same for the sequence of symbols alt
SeqParse(alt, s, i) ==
    IF alt = <<>> THEN [ends |-> {i}, open |-> FALSE]
    ELSE LET head == SymParse(Head(alt), s, i)
             rest == {SeqParse(Tail(alt), s, j) : j \in head.ends}
         IN  [ends |-> UNION {r.ends : r \in rest}, open |-> head.open \/ \E r \in rest : r.open]

\* the stream s derives from Program
Derives(s) == (Len(s) + 1) \in SymParse("Program", s, 1).ends

\* some stream that derives from Program begins with s
Viable(s) == LET p == SymParse("Program", s, 1) IN (Len(s) + 1) \in p.ends \/ p.open

\* the stream the parser is reading can derive from Program: the stream is tokens when its
\* end has been read, and some stream that begins with tokens otherwise
MayDerive == IF eof THEN Derives(tokens) ELSE Viable(tokens)

ParseReturned == parse_result # PyNone
ParseFailed == ParseReturned /\ ~ parse_result.success
ParseSucceeded == ParseReturned /\ parse_result.success

\* a statement is about to return to the loop that called it with the cursor where it was
StuckStatement ==
    /\ pc = "parse" /\ stack # <<>>
    /\ Top.fn = "parse_statement" /\ Top.at = 119
    /\ current_token <= Top.entry

-----------------------------------------------------------------------------
(* The claims *)

ResultFields == {"tokens", "lexical_errors", "parse_result", "semantic_result"}

\* C1: whenever analyze_program has ended, it has returned a result with the four fields
\* tokens, lexical_errors, parse_result and semantic_result: no exception has escaped
\* (the stream ending inside a rule is reported in parse_result).
C1_CompleteResult ==
    pc \in {"done", "crashed"} =>
        /\ DOMAIN result = ResultFields
        /\ ParseReturned
        /\ (~ parse_result.success => DOMAIN parse_result = {"success", "error"})

\* C2: every iteration of the statement loops of parse_program and parse_compound_statement
\* advances the cursor or aborts the parse: a statement never returns to its loop with the
\* cursor where the iteration found it.
C2_IterationAdvances == ~ StuckStatement

\* C3: a stream that derives from Program is parsed with success = true, a symbol table and
\* no error field: the parser fails, raises or stops advancing only on a stream that does
\* not derive from Program.
C3_GrammarAccepted ==
    /\ (\/ pc = "analyze" /\ ParseFailed
        \/ pc = "crashed"
        \/ StuckStatement) => ~ MayDerive
    /\ ParseSucceeded => DOMAIN parse_result = {"success", "symbol_table"}

\* a derivable program with a conditional has been accepted
C3_Witness ==
    /\ pc = "done" /\ ParseSucceeded /\ Derives(tokens)
    /\ current_token = Len(tokens)
    /\ \E i \in 1..Len(tokens) : tokens[i] = Kw("if")

\* C10: success = true is returned only for a stream that derives from Program, and then
\* the cursor is at the end of the stream.
C10_OnlyGrammarAccepted ==
    (pc = "done" /\ ParseSucceeded) => (Derives(tokens) /\ current_token = Len(tokens))

\* the positions of text covered by the matches ms
Covered(ms) == UNION {ms[k].first .. ms[k].last : k \in 1..Len(ms)}

\* the errors of the characters of text at the positions of P from i on, in source order
RECURSIVE ErrorsAt(_, _, _)
ErrorsAt(text, P, i) ==
    IF i > Len(text) THEN <<>>
    ELSE (IF i \in P THEN <<UnknownChar(text[i])>> ELSE <<>>) \o ErrorsAt(text, P, i + 1)

\* C4: the lexical errors are one 'unrecognized character' error for each non-whitespace
\* character position that no match of the primary scan covers, in source order.
C4_ErrorsAreUncoveredChars ==
    pc = "tokenized" =>
        lexical_errors =
            ErrorsAt(program,
                     {i \in 1..Len(program) : program[i] \notin SpaceChars}
                        \ Covered(finditer(program, 1)),
                     1)

Max(S) == CHOOSE m \in S : \A o \in S : m >= o

\* the number of entries of seq that equal e
Count(seq, e) == Cardinality({i \in DOMAIN seq : seq[i] = e})

UsedBeforeDeclaration(n) == [msg |-> "used before declaration", name |-> n]
UnknownType(n) == [msg |-> "unknown type", name |-> n]
HasMsg(e, m) == "msg" \in DOMAIN e /\ e.msg = m

\* the values of the IDENTIFIER tokens of the stream
IdentifierValues == {tokens[i].value : i \in {j \in 1..Len(tokens) : tokens[j].kind = "IDENTIFIER"}}

\* the identifier n occurs somewhere immediately after a KEYWORD 'let'
FollowsLet(n) ==
    \E i \in 2..Len(tokens) : tokens[i] = Token("IDENTIFIER", n) /\ tokens[i - 1] = Kw("let")

C6_FailedParseSkipsPasses ==
    (pc = "done" /\ ParseFailed) =>
        LET r == result.semantic_result
            n == Len(lexical_errors)
        IN  /\ r.success = FALSE
            /\ Len(r.errors) = n + 1
            /\ \A i \in 1..n : r.errors[i] = [prefix |-> "lexical error", error |-> lexical_errors[i]]
            /\ r.errors[n + 1] = [prefix |-> "syntax error", error |-> parse_result.error]
            /\ r.symbol_table = <<>>
            /\ declared_variables = {} /\ undeclared_usage = {}

\* a failed parse that had filled the parser's table, with lexical errors
C6_Witness ==
    /\ pc = "done" /\ ParseFailed
    /\ symbol_table # <<>>
    /\ lexical_errors # <<>>

\* C7: success is true exactly when there is no lexical error, the parse succeeded, every
\* identifier follows a 'let' somewhere and every table value is a number; the prefixed
\* lexical errors come first, then the errors of pass (a), then those of pass (b).
C7_SuccessAndOrder ==
    pc = "done" =>
        LET r == result.semantic_result
            n == Len(lexical_errors)
        IN  /\ r.success <=>
                  /\ lexical_errors = <<>>
                  /\ ParseSucceeded
                  /\ \A name \in IdentifierValues : FollowsLet(name)
                  /\ \A i \in DOMAIN parse_result.symbol_table :
                        parse_result.symbol_table[i].info.value.py \in {"int", "float"}
            /\ Len(r.errors) >= n
            /\ \A i \in 1..n : r.errors[i] = [prefix |-> "lexical error", error |-> lexical_errors[i]]
            /\ ParseSucceeded =>
                  /\ \A i \in (n + 1)..Len(r.errors) :
                        \/ HasMsg(r.errors[i], "used before declaration")
                        \/ HasMsg(r.errors[i], "unknown type")
                  /\ \A i, j \in (n + 1)..Len(r.errors) :
                        (HasMsg(r.errors[i], "unknown type")
                            /\ HasMsg(r.errors[j], "used before declaration")) => j < i

\* lexical errors, an error of pass (a) and an error of pass (b) in one result
C7_Witness ==
    /\ pc = "done" /\ ParseSucceeded
    /\ lexical_errors # <<>>
    /\ \E i, j \in DOMAIN result.semantic_result.errors :
          /\ HasMsg(result.semantic_result.errors[i], "used before declaration")
          /\ HasMsg(result.semantic_result.errors[j], "unknown type")

\* the value of the expression s[i..j]
RECURSIVE ExprTree(_, _, _)
ExprTree(s, i, j) ==
    IF i >= j THEN s[i].value
    ELSE [py |-> "dict", left |-> s[i].value, operator |-> s[i + 1].value,
          right |-> ExprTree(s, i + 2, j)]

IsDeclared(table, n) ==
    /\ n \in Keys(table)
    /\ "declared" \in DOMAIN Lookup(table, n)
    /\ Lookup(table, n).declared = TRUE

\* this step is the return of the rule f
Completes(f) == pc = "parse" /\ stack # <<>> /\ Top.fn = f /\ stack' = Tail(stack)

\* the position of the '=' of the declaration or assignment whose delimiter is at the cursor
BindingAt == Max({k \in 1..current_token : tokens[k].kind = "ASSIGN"})

\* every entry but that of n is the same in the tables t and u
SameBut(t, u, n) ==
    /\ Keys(u) = Keys(t) \cup {n}
    /\ \A k \in Keys(t) \ {n} : Lookup(u, k) = Lookup(t, k)

LastBinding(n) ==
    Max({k \in 2..Len(tokens) :
            /\ tokens[k].kind = "ASSIGN" /\ tokens[k - 1] = Token("IDENTIFIER", n)
            /\ ~ (k > 2 /\ tokens[k - 2] = Kw("for"))})

\* the right-hand side after the '=' at position k is one NUMBER token
NumberAfter(k) == tokens[k + 1].kind = "NUMBER" /\ tokens[k + 2].kind = "DELIMITER"

\* the literals of the NUMBER tokens of the streams
NumberLiterals == {<<"1", "0">>, <<"1", "E", "3">>}

\* C9: after a successful parse there is exactly one 'unknown type' error for each entry whose
\* last declaration or assignment has a right-hand side that is not one numeric literal, and
\* none for an entry whose last right-hand side is a numeric literal; a literal is an integer
\* when it has no '.', 'E' or 'e', and floating-point otherwise.
C9_OneErrorPerNonNumericEntry ==
    (pc = "done" /\ ParseSucceeded) =>
        LET errs == result.semantic_result.errors
            table == result.semantic_result.symbol_table
        IN  /\ \A n \in Keys(table) :
                  Count(errs, UnknownType(n)) = IF NumberAfter(LastBinding(n)) THEN 0 ELSE 1
            /\ \A i \in DOMAIN errs : HasMsg(errs[i], "unknown type") => errs[i].name \in Keys(table)
            /\ \A i \in 1..Len(tokens) :
                  tokens[i].kind = "NUMBER" =>
                     \E lit \in NumberLiterals :
                        /\ tokens[i].value.v = Text(lit, 1, Len(lit))
                        /\ tokens[i].value.py =
                              IF \E k \in 1..Len(lit) : lit[k] \in {".", "E", "e"}
                              THEN "float" ELSE "int"

\* an entry bound to a numeric literal first and to an identifier last has its error
C9_Witness ==
    /\ pc = "done" /\ ParseSucceeded
    /\ \E n \in Keys(result.semantic_result.symbol_table) :
          /\ Count(result.semantic_result.errors, UnknownType(n)) = 1
          /\ \E k \in 2..(LastBinding(n) - 1) :
                /\ tokens[k].kind = "ASSIGN" /\ tokens[k - 1] = Token("IDENTIFIER", n)
                /\ NumberAfter(k)

====
